---- MODULE Spec2Model ----
(***************************************************************************)
(* A model of the auto-letter backend: the placeholder scanner             *)
(* (TemplateParser), the schema classifier (_generate_schema) and the      *)
(* run-aware substitution engine (DocumentGenerator).                      *)
(*                                                                         *)
(* Text is a sequence of one-character strings.  Offsets into text are     *)
(* Python's 0-based offsets, so the character at offset k of s is s[k+1].  *)
(* A paragraph is the sequence of its runs' texts; paragraph.text is the   *)
(* concatenation of the run texts.                                         *)
(***************************************************************************)
EXTENDS Integers, Sequences, FiniteSets, TLC

\* ------------------------------------------------------------------ bounds

\* The longest paragraph text, counted in pieces (a piece is one character
\* or one whole placeholder token).
MaxPieces == 3

\* The largest number of runs a paragraph is split into.
MaxRuns == 3

\* The longest placeholder list given to the schema classifier.
MaxNames == 3

\* The depth to which the tables of a document are nested: a cell of a table
\* at a depth below NestDepth holds a table of its own.
NestDepth == 2

\* The number of requests the server is given, which may run interleaved.
MaxRequests == 2

\* --------------------------------------------------------------- characters

\* The characters of the model in code point order (Python compares strings
\* by code point): space, digits, upper case, underscore, lower case, braces.
CharOrder ==
    <<
       " ", "0", "1", "2", "3", "4", "5", "6", "7", "8", "9", "A", "B",
       "C", "D", "E", "F", "G", "H", "I", "J", "K", "L", "M", "N", "O",
       "P", "Q", "R", "S", "T", "U", "V", "W", "X", "Y", "Z", "_", "a",
       "b", "c", "d", "e", "f", "g", "h", "i", "j", "k", "l", "m", "n",
       "o", "p", "q", "r", "s", "t", "u", "v", "w", "x", "y", "z", "{",
       "}"
    >>

Ord(c) == CHOOSE i \in 1..Len(CharOrder) : CharOrder[i] = c

LowerLetters ==
    <<
       "a", "b", "c", "d", "e", "f", "g", "h", "i", "j", "k", "l", "m",
       "n", "o", "p", "q", "r", "s", "t", "u", "v", "w", "x", "y", "z"
    >>

UpperLetters ==
    <<
       "A", "B", "C", "D", "E", "F", "G", "H", "I", "J", "K", "L", "M",
       "N", "O", "P", "Q", "R", "S", "T", "U", "V", "W", "X", "Y", "Z"
    >>

IsLower(c) == \E i \in 1..26 : LowerLetters[i] = c

IsUpper(c) == \E i \in 1..26 : UpperLetters[i] = c

\* str.lower() and str.upper() on one character.
LowerChar(c) ==
    IF IsUpper(c) THEN LowerLetters[CHOOSE i \in 1..26 : UpperLetters[i] = c] ELSE c

UpperChar(c) ==
    IF IsLower(c) THEN UpperLetters[CHOOSE i \in 1..26 : LowerLetters[i] = c] ELSE c

Lower(s) == [i \in 1..Len(s) |-> LowerChar(s[i])]

\* \w of the pattern: letters, digits and the underscore.
WordChars ==
    {LowerLetters[i] : i \in 1..26} \cup {UpperLetters[i] : i \in 1..26}
    \cup {"0", "1", "2", "3", "4", "5", "6", "7", "8", "9", "_"}

IsWordChar(c) == c \in WordChars

\* Python's  sub in s  on strings.
IsSubstring(sub, s) ==
    \E i \in 0..(Len(s) - Len(sub)) : SubSeq(s, i + 1, i + Len(sub)) = sub

\* Python's  a < b  on strings.
RECURSIVE StrLess(_, _)
StrLess(a, b) ==
    IF b = <<>> THEN FALSE
    ELSE IF a = <<>> THEN TRUE
    ELSE IF a[1] # b[1] THEN Ord(a[1]) < Ord(b[1])
    ELSE StrLess(Tail(a), Tail(b))

\* Python's slices s[:k] and s[k:], negative and out-of-range k included.
SliceIndex(s, k) ==
    LET j == IF k < 0 THEN k + Len(s) ELSE k
    IN  IF j < 0 THEN 0 ELSE IF j > Len(s) THEN Len(s) ELSE j

SliceTo(s, k) == SubSeq(s, 1, SliceIndex(s, k))

SliceFrom(s, k) == SubSeq(s, SliceIndex(s, k) + 1, Len(s))

\* ------------------------------------------------------------- the pattern

\* The token {{name}} of a placeholder name.
Token(name) == <<"{", "{">> \o name \o <<"}", "}">>

\* The offset after the longest run of word characters of text from offset j.
RECURSIVE WordEnd(_, _)
WordEnd(text, j) ==
    IF j < Len(text) /\ IsWordChar(text[j + 1]) THEN WordEnd(text, j + 1) ELSE j

\* The end offset of a match of \{\{(\w+)\}\} starting at offset i, or -1.
\* \w+ is greedy; giving characters back never helps, since the character
\* after a shorter word would be a word character and not a brace.
MatchEnd(text, i) ==
    IF i + 2 <= Len(text) /\ text[i + 1] = "{" /\ text[i + 2] = "{"
    THEN LET j == WordEnd(text, i + 2)
         IN  IF j > i + 2 /\ j + 2 <= Len(text)
                /\ text[j + 1] = "}" /\ text[j + 2] = "}"
             THEN j + 2 ELSE -1
    ELSE -1

\* re.finditer: the leftmost non-overlapping matches from offset i on, each
\* with its group(1) and its span().
RECURSIVE FindIterFrom(_, _)
FindIterFrom(text, i) ==
    IF i >= Len(text) THEN <<>>
    ELSE LET e == MatchEnd(text, i)
         IN  IF e < 0 THEN FindIterFrom(text, i + 1)
             ELSE << [name |-> SubSeq(text, i + 3, e - 2), start |-> i, end |-> e] >>
                  \o FindIterFrom(text, e)

FindIter(text) == FindIterFrom(text, 0)

\* re.findall with one group: the captured names, in order.
FindAll(text) == [k \in 1..Len(FindIter(text)) |-> FindIter(text)[k].name]

\* _contains_placeholders: bool(re.search(pattern, text)).
ContainsPlaceholders(text) == FindIter(text) # <<>>

\* ------------------------------------------------------------- paragraphs

\* The elements of a list as a set (set.update, set.add).
Range(f) == {f[k] : k \in DOMAIN f}

\* The sequences of a sequence concatenated in order (nested for loops).
RECURSIVE Flatten(_)
Flatten(ps) == IF ps = <<>> THEN <<>> ELSE Head(ps) \o Flatten(Tail(ps))

\* paragraph.text: the run texts concatenated in order.
RECURSIVE ParagraphText(_)
ParagraphText(rs) ==
    IF rs = <<>> THEN <<>> ELSE Head(rs) \o ParagraphText(Tail(rs))

\* The decimal digits of a natural number.
RECURSIVE Decimal(_)
Decimal(n) ==
    LET d == <<"0", "1", "2", "3", "4", "5", "6", "7", "8", "9">>[(n % 10) + 1]
    IN  IF n < 10 THEN <<d>> ELSE Decimal(n \div 10) \o <<d>>

\* str(value): a string is itself, an integer is its decimal digits.
Str(v) == IF v.kind = "str" THEN v.s ELSE Decimal(v.n)

\* The fallback written with spaces inside the braces, "{{ name }}".
ReplacementValue_Spaced(ud, name) ==
    IF name \in DOMAIN ud THEN Str(ud[name])
    ELSE <<"{", "{", " ">> \o name \o <<" ", "}", "}">>

\* str(user_data.get(name, "{{name}}")).
ReplacementValue(ud, name) ==
    IF name \in DOMAIN ud THEN Str(ud[name]) ELSE Token(name)

\* runs_info: the cumulative start and end offset of run i.
RECURSIVE RunStart(_, _)
RunStart(rs, i) == IF i = 1 THEN 0 ELSE RunStart(rs, i - 1) + Len(rs[i - 1])

RunEnd(rs, i) == RunStart(rs, i) + Len(rs[i])

\* affected_runs: the indices of the runs that overlap [start_pos, end_pos),
\* in run order.
RECURSIVE AffectedFrom(_, _, _, _)
AffectedFrom(rs, start_pos, end_pos, i) ==
    IF i > Len(rs) THEN <<>>
    ELSE (IF RunStart(rs, i) < end_pos /\ RunEnd(rs, i) > start_pos
          THEN <<i>> ELSE <<>>)
         \o AffectedFrom(rs, start_pos, end_pos, i + 1)

\* The overlap test with <= and >=: a run that only touches the span counts.
RECURSIVE AffectedFrom_Inclusive(_, _, _, _)
AffectedFrom_Inclusive(rs, start_pos, end_pos, i) ==
    IF i > Len(rs) THEN <<>>
    ELSE (IF RunStart(rs, i) <= end_pos /\ RunEnd(rs, i) >= start_pos
          THEN <<i>> ELSE <<>>)
         \o AffectedFrom_Inclusive(rs, start_pos, end_pos, i + 1)

AffectedRuns_Inclusive(rs, start_pos, end_pos) ==
    AffectedFrom_Inclusive(rs, start_pos, end_pos, 1)

AffectedRuns(rs, start_pos, end_pos) == AffectedFrom(rs, start_pos, end_pos, 1)

\* The last affected run cleared like a middle run, its text after the match
\* lost.
ReplaceTextInParagraph_LastCleared(rs, start_pos, end_pos, replacement_text) ==
    LET affected_runs == AffectedRuns(rs, start_pos, end_pos)
    IN  IF affected_runs = <<>> THEN rs
        ELSE LET first_run == affected_runs[1]
                 last_run  == affected_runs[Len(affected_runs)]
                 cut_start == start_pos - RunStart(rs, first_run)
                 cut_end   == end_pos - RunStart(rs, last_run)
             IN  IF Len(affected_runs) = 1
                 THEN [rs EXCEPT ![first_run] =
                          SliceTo(rs[first_run], cut_start) \o replacement_text
                          \o SliceFrom(rs[first_run], cut_end)]
                 ELSE [i \in 1..Len(rs) |->
                          IF i = first_run
                          THEN SliceTo(rs[first_run], cut_start) \o replacement_text
                          ELSE IF i > first_run /\ i <= last_run THEN <<>>
                          ELSE rs[i]]

\* The emptied runs taken out of the run list: the runs between the first
\* and the last affected run are removed instead of being set to "".
ReplaceTextInParagraph_MiddleRemoved(rs, start_pos, end_pos, replacement_text) ==
    LET affected_runs == AffectedRuns(rs, start_pos, end_pos)
    IN  IF affected_runs = <<>> THEN rs
        ELSE LET first_run == affected_runs[1]
                 last_run  == affected_runs[Len(affected_runs)]
                 cut_start == start_pos - RunStart(rs, first_run)
                 cut_end   == end_pos - RunStart(rs, last_run)
             IN  IF Len(affected_runs) = 1
                 THEN [rs EXCEPT ![first_run] =
                          SliceTo(rs[first_run], cut_start) \o replacement_text
                          \o SliceFrom(rs[first_run], cut_end)]
                 ELSE SubSeq(rs, 1, first_run - 1)
                      \o << SliceTo(rs[first_run], cut_start) \o replacement_text >>
                      \o << SliceFrom(rs[last_run], cut_end) >>
                      \o SubSeq(rs, last_run + 1, Len(rs))

\* _replace_text_in_paragraph: the run texts after the call.
ReplaceTextInParagraph(rs, start_pos, end_pos, replacement_text) ==
    LET affected_runs == AffectedRuns(rs, start_pos, end_pos)
    IN  IF affected_runs = <<>> THEN rs
        ELSE LET first_run == affected_runs[1]
                 last_run  == affected_runs[Len(affected_runs)]
                 cut_start == start_pos - RunStart(rs, first_run)
                 cut_end   == end_pos - RunStart(rs, last_run)
                 middle    == {affected_runs[k] : k \in 2..(Len(affected_runs) - 1)}
             IN  IF Len(affected_runs) = 1
                 THEN [rs EXCEPT ![first_run] =
                          SliceTo(rs[first_run], cut_start) \o replacement_text
                          \o SliceFrom(rs[first_run], cut_end)]
                 ELSE [i \in 1..Len(rs) |->
                          IF i = last_run THEN SliceFrom(rs[last_run], cut_end)
                          ELSE IF i = first_run
                          THEN SliceTo(rs[first_run], cut_start) \o replacement_text
                          ELSE IF i \in middle THEN <<>>
                          ELSE rs[i]]

\* The number of  run.text = ...  assignments one call of
\* _replace_text_in_paragraph executes.
Assignments(rs, start_pos, end_pos) ==
    LET affected_runs == AffectedRuns(rs, start_pos, end_pos)
    IN  IF affected_runs = <<>> THEN 0
        ELSE IF Len(affected_runs) = 1 THEN 1
        ELSE (Len(affected_runs) - 2) + 2

\* The matches taken left to right.
Reversed_Forward(ms) == ms

\* The order in which _process_paragraphs takes the matches of a paragraph:
\* reversed(placeholders).
Reversed(ms) == [k \in 1..Len(ms) |-> ms[Len(ms) + 1 - k]]

\* The loop of _process_paragraphs over the matches ms (already in
\* processing order) of one paragraph.
RECURSIVE ReplaceAll(_, _, _)
ReplaceAll(rs, ms, ud) ==
    IF ms = <<>> THEN rs
    ELSE ReplaceAll(
           ReplaceTextInParagraph(rs, Head(ms).start, Head(ms).end,
                                  ReplacementValue(ud, Head(ms).name)),
           Tail(ms), ud)

\* The naive rewrite: the whole text, substituted, put into the first run and
\* the other runs emptied, whether or not the paragraph holds a placeholder.
ProcessParagraph_Collapse(rs, ud) ==
    LET full_text == ParagraphText(rs)
        replaced == ReplaceAll(<<full_text>>, Reversed(FindIter(full_text)), ud)
    IN  [i \in 1..Len(rs) |-> IF i = 1 THEN replaced[1] ELSE <<>>]

\* The body of the loop of _process_paragraphs for one paragraph.
ProcessParagraph(rs, ud) ==
    LET full_text == ParagraphText(rs)
    IN  IF ~ContainsPlaceholders(full_text) THEN rs
        ELSE ReplaceAll(rs, Reversed(FindIter(full_text)), ud)

\* _process_paragraphs: every paragraph of the list, in order.
ProcessParagraphs(paragraphs, ud) ==
    [k \in 1..Len(paragraphs) |-> ProcessParagraph(paragraphs[k], ud)]

\* -------------------------------------------------------------- documents

(***************************************************************************)
(* A document is [paragraphs, tables, sections]: the body's own paragraphs *)
(* (doc.paragraphs), the body's own tables (doc.tables) and the sections.  *)
(* A table is a sequence of rows, a row a sequence of cells, a cell is     *)
(* [paragraphs, tables]: its own paragraphs (cell.paragraphs) and the      *)
(* tables nested in it (cell.tables).  A section is [header, footer], each *)
(* [paragraphs, tables].                                                    *)
(***************************************************************************)

\* for table in tables: for row in table.rows: for cell in row.cells.
CellsOf(tables) == Flatten([t \in 1..Len(tables) |-> Flatten(tables[t])])

\* The paragraphs that the loops over table cells reach: cell.paragraphs of
\* every cell of the given tables.
CellParagraphs(tables) ==
    Flatten([k \in 1..Len(CellsOf(tables)) |-> CellsOf(tables)[k].paragraphs])

\* The number of run.text assignments _process_paragraphs makes on one
\* paragraph.
RECURSIVE WritesOfAll(_, _, _)
WritesOfAll(rs, ms, ud) ==
    IF ms = <<>> THEN 0
    ELSE Assignments(rs, Head(ms).start, Head(ms).end)
         + WritesOfAll(
             ReplaceTextInParagraph(rs, Head(ms).start, Head(ms).end,
                                    ReplacementValue(ud, Head(ms).name)),
             Tail(ms), ud)

ParagraphWrites(rs, ud) ==
    IF ~ContainsPlaceholders(ParagraphText(rs)) THEN 0
    ELSE WritesOfAll(rs, Reversed(FindIter(ParagraphText(rs))), ud)

RECURSIVE Sum(_)
Sum(ns) == IF ns = <<>> THEN 0 ELSE Head(ns) + Sum(Tail(ns))

ParagraphsWrites(paragraphs, ud) ==
    Sum([k \in 1..Len(paragraphs) |-> ParagraphWrites(paragraphs[k], ud)])

\* _process_tables: the paragraphs of every cell of every row of the tables;
\* the tables nested in a cell are left as they are.
ProcessTables(tables, ud) ==
    [t \in 1..Len(tables) |->
        [r \in 1..Len(tables[t]) |->
            [c \in 1..Len(tables[t][r]) |->
                [paragraphs |-> ProcessParagraphs(tables[t][r][c].paragraphs, ud),
                 tables |-> tables[t][r][c].tables]]]]

\* _process_headers_footers on one header or footer: its paragraphs, then
\* each of its tables.
ProcessHeaderFooter(hf, ud) ==
    [paragraphs |-> ProcessParagraphs(hf.paragraphs, ud),
     tables |-> ProcessTables(hf.tables, ud)]

\* _process_headers_footers.
ProcessHeadersFooters(sections, ud) ==
    [k \in 1..Len(sections) |->
        [header |-> ProcessHeaderFooter(sections[k].header, ud),
         footer |-> ProcessHeaderFooter(sections[k].footer, ud)]]

\* The paragraphs _process_headers_footers reaches.
HeaderFooterParagraphs(sections) ==
    Flatten([k \in 1..Len(sections) |->
               sections[k].header.paragraphs \o CellParagraphs(sections[k].header.tables)
               \o sections[k].footer.paragraphs
               \o CellParagraphs(sections[k].footer.tables)])

\* The names re.findall collects from a list of paragraphs.
NamesIn(paragraphs) ==
    UNION { Range(FindAll(ParagraphText(paragraphs[k]))) : k \in 1..Len(paragraphs) }

\* sorted(list(placeholders)).
RECURSIVE SortedList(_)
SortedList(S) ==
    IF S = {} THEN <<>>
    ELSE LET m == CHOOSE x \in S : \A y \in S \ {x} : StrLess(x, y)
         IN  <<m>> \o SortedList(S \ {m})

\* The paragraphs the loops of _extract_placeholders (and of
\* get_template_placeholders) reach: the body's, those of the cells of the
\* body's tables, and each section's header.paragraphs and footer.paragraphs.
ScannedParagraphs(d) ==
    d.paragraphs \o CellParagraphs(d.tables)
    \o Flatten([k \in 1..Len(d.sections) |->
                  d.sections[k].header.paragraphs \o d.sections[k].footer.paragraphs])

\* _extract_placeholders.
ExtractPlaceholders(d) == SortedList(NamesIn(ScannedParagraphs(d)))

\* replace_match of preview_replacements: str(user_data.get(key, "{{ key }}")).
PreviewValue(ud, key) ==
    IF key \in DOMAIN ud THEN Str(ud[key])
    ELSE <<"{", "{", " ">> \o key \o <<" ", "}", "}">>

\* re.sub(pattern, replace_match, original) from offset i on.
RECURSIVE ReSubFrom(_, _, _)
ReSubFrom(text, i, ud) ==
    IF i >= Len(text) THEN <<>>
    ELSE LET e == MatchEnd(text, i)
         IN  IF e < 0 THEN <<text[i + 1]>> \o ReSubFrom(text, i + 1, ud)
             ELSE PreviewValue(ud, SubSeq(text, i + 3, e - 2)) \o ReSubFrom(text, e, ud)

\* The entries preview_replacements appends for a list of paragraphs of
\* the given type, from paragraph k on.  The place of an entry is its index
\* in the list (for a table cell the code gives table, row, cell and
\* paragraph, which name the same position).
RECURSIVE PreviewEntries(_, _, _, _)
PreviewEntries(kind, paragraphs, k, ud) ==
    IF k > Len(paragraphs) THEN <<>>
    ELSE (IF ContainsPlaceholders(ParagraphText(paragraphs[k]))
          THEN << [type |-> kind, index |-> k - 1,
                   original |-> ParagraphText(paragraphs[k]),
                   replaced |-> ReSubFrom(ParagraphText(paragraphs[k]), 0, ud)] >>
          ELSE <<>>)
         \o PreviewEntries(kind, paragraphs, k + 1, ud)

\* The replacements of preview_replacements: the body's paragraphs, then the
\* paragraphs of the cells of the body's tables.
PreviewReplacements(d, ud) ==
    PreviewEntries("paragraph", d.paragraphs, 1, ud)
    \o PreviewEntries("table_cell", CellParagraphs(d.tables), 1, ud)

\* ------------------------------------------------------ schema classifier

\* field_groups: the sections in declaration order, each with its keywords.
field_groups ==
    <<
      [name |-> "header", keywords |-> <<
          <<"n", "o", "m", "o", "r">>,
          <<"n", "u", "m", "b", "e", "r">>,
          <<"t", "a", "n", "g", "g", "a", "l">>,
          <<"d", "a", "t", "e">>,
          <<"l", "a", "m", "p", "i", "r", "a", "n">>,
          <<"a", "t", "t", "a", "c", "h", "m", "e", "n", "t">>,
          <<"h", "a", "l">>,
          <<"s", "u", "b", "j", "e", "c", "t">>,
          <<"p", "e", "r", "i", "h", "a", "l">>
      >>],
      [name |-> "recipient", keywords |-> <<
          <<"k", "e", "p", "a", "d", "a">>,
          <<"r", "e", "c", "i", "p", "i", "e", "n", "t">>,
          <<"y", "t", "h">>,
          <<"a", "l", "a", "m", "a", "t">>,
          <<"a", "d", "d", "r", "e", "s", "s">>,
          <<"k", "o", "t", "a">>,
          <<"l", "o", "c", "a", "t", "i", "o", "n">>,
          <<"t", "e", "m", "p", "a", "t">>
      >>],
      [name |-> "personal", keywords |-> <<
          <<"n", "a", "m", "a">>,
          <<"n", "a", "m", "e">>,
          <<"n", "i", "m">>,
          <<"i", "d">>,
          <<"p", "r", "o", "g", "r", "a", "m">>,
          <<"s", "t", "u", "d", "e", "n", "t">>,
          <<"m", "a", "h", "a", "s", "i", "s", "w", "a">>,
          <<"p", "r", "o", "d", "i">>
      >>],
      [name |-> "content", keywords |-> <<
          <<"j", "u", "d", "u", "l">>,
          <<"t", "i", "t", "l", "e">>,
          <<"k", "e", "g", "i", "a", "t", "a", "n">>,
          <<"a", "c", "t", "i", "v", "i", "t", "y">>,
          <<"p", "e", "n", "e", "l", "i", "t", "i", "a", "n">>,
          <<"r", "e", "s", "e", "a", "r", "c", "h">>,
          <<"l", "a", "m", "a">>,
          <<"d", "u", "r", "a", "t", "i", "o", "n">>,
          <<"w", "a", "k", "t", "u">>,
          <<"p", "e", "r", "i", "o", "d">>,
          <<"l", "o", "k", "a", "s", "i">>,
          <<"i", "s", "i">>
      >>],
      [name |-> "signature", keywords |-> <<
          <<"p", "e", "n", "a", "n", "d", "a", "t", "a", "n", "g", "a", "n">>,
          <<"s", "i", "g", "n", "e", "r">>,
          <<"n", "i", "p">>,
          <<"j", "a", "b", "a", "t", "a", "n">>,
          <<"p", "o", "s", "i", "t", "i", "o", "n">>,
          <<"d", "i", "r", "e", "k", "t", "u", "r">>,
          <<"k", "e", "p", "a", "l", "a">>
      >>],
      [name |-> "other", keywords |-> <<
      >>]
    >>

\* The replacements of _humanize_field.
humanize_replacements ==
    <<
      [key |-> <<"n", "i", "m">>, label |-> <<"N", "I", "M">>],
      [key |-> <<"n", "i", "p">>, label |-> <<"N", "I", "P">>],
      [key |-> <<"n", "a", "m", "a">>, label |-> <<"N", "a", "m", "a">>],
      [key |-> <<"t", "a", "n", "g", "g", "a", "l">>, label |-> <<"T", "a", "n", "g", "g", "a", "l">>],
      [key |-> <<"n", "o", "m", "o", "r">>, label |-> <<"N", "o", "m", "o", "r">>],
      [key |-> <<"h", "a", "l">>, label |-> <<"H", "a", "l">>],
      [key |-> <<"p", "r", "o", "d", "i">>, label |-> <<"P", "r", "o", "g", "r", "a", "m", " ", "S", "t", "u", "d", "i">>]
    >>

\* The keyword lists of _infer_field_type, in the order they are tested.
field_types ==
    <<
      [type |-> "date", words |-> <<<<"t", "a", "n", "g", "g", "a", "l">>, <<"d", "a", "t", "e">>>>],
      [type |-> "email", words |-> <<<<"e", "m", "a", "i", "l">>, <<"s", "u", "r", "e", "l">>>>],
      [type |-> "text", words |-> <<<<"n", "o", "m", "o", "r">>, <<"n", "u", "m", "b", "e", "r">>, <<"n", "i", "m">>, <<"n", "i", "p">>>>],
      [type |-> "textarea", words |-> <<<<"j", "u", "d", "u", "l">>, <<"t", "i", "t", "l", "e">>, <<"k", "e", "g", "i", "a", "t", "a", "n">>, <<"a", "c", "t", "i", "v", "i", "t", "y">>, <<"d", "e", "s", "k", "r", "i", "p", "s", "i">>, <<"d", "e", "s", "c", "r", "i", "p", "t", "i", "o", "n">>>>],
      [type |-> "tel", words |-> <<<<"t", "e", "l", "e", "p", "o", "n">>, <<"p", "h", "o", "n", "e">>, <<"h", "p">>>>]
    >>

\* _translate_section_name.
TranslateSectionName(section_name) ==
    CASE section_name = "header" -> "Kop Surat"
      [] section_name = "recipient" -> "Penerima"
      [] section_name = "personal" -> "Data Pribadi"
      [] section_name = "content" -> "Isi Surat"
      [] section_name = "signature" -> "Penandatangan"
      [] OTHER -> "Lainnya"

\* str.title(): a letter that follows a letter is lower case, any other
\* letter is upper case.
Title(s) ==
    [i \in 1..Len(s) |->
        IF i > 1 /\ (IsLower(s[i - 1]) \/ IsUpper(s[i - 1]))
        THEN LowerChar(s[i]) ELSE UpperChar(s[i])]

\* _humanize_field.
HumanizeField(field_name) ==
    LET lower_name == Lower(field_name)
        known == {k \in 1..Len(humanize_replacements) :
                    humanize_replacements[k].key = lower_name}
    IN  IF known # {}
        THEN humanize_replacements[CHOOSE k \in known : TRUE].label
        ELSE Title([i \in 1..Len(field_name) |->
                      IF field_name[i] = "_" THEN " " ELSE field_name[i]])

\* _infer_field_type: the type of the first keyword list with a word in the
\* lower-cased name, else text.
InferFieldType(field_name) ==
    LET lower_name == Lower(field_name)
        hits == {k \in 1..Len(field_types) :
                   \E w \in 1..Len(field_types[k].words) :
                      IsSubstring(field_types[k].words[w], lower_name)}
    IN  IF hits = {} THEN "text"
        ELSE field_types[CHOOSE k \in hits : \A j \in hits : k <= j].type

\* field_config of one placeholder.
FieldConfig(placeholder) ==
    [name |-> placeholder,
     label |-> HumanizeField(placeholder),
     type |-> InferFieldType(placeholder),
     required |-> TRUE,
     placeholder |-> <<"M", "a", "s", "u", "k", "k", "a", "n", " ">>
                     \o Lower(HumanizeField(placeholder)) \o <<".", ".", ".">>]

\* any(keyword in placeholder.lower() for keyword in keywords).
MatchesKeywords(keywords, placeholder) ==
    \E k \in 1..Len(keywords) : IsSubstring(keywords[k], Lower(placeholder))

\* The test  placeholder in used_fields  left out.
RECURSIVE ClaimedFrom_IgnoresUsed(_, _, _, _)
ClaimedFrom_IgnoresUsed(list, keywords, used, i) ==
    IF i > Len(list) THEN <<>>
    ELSE (IF MatchesKeywords(keywords, list[i]) THEN <<list[i]>> ELSE <<>>)
         \o ClaimedFrom_IgnoresUsed(list, keywords, used, i + 1)

\* The placeholders at positions i.. of the list that a section claims: those
\* not in used whose name holds one of the keywords, in list order.
RECURSIVE ClaimedFrom(_, _, _, _)
ClaimedFrom(list, keywords, used, i) ==
    IF i > Len(list) THEN <<>>
    ELSE (IF list[i] \notin used /\ MatchesKeywords(keywords, list[i])
          THEN <<list[i]>> ELSE <<>>)
         \o ClaimedFrom(list, keywords,
                        IF list[i] \notin used /\ MatchesKeywords(keywords, list[i])
                        THEN used \cup {list[i]} ELSE used,
                        i + 1)

\* The placeholders left for the section "other": those not in used_fields,
\* in list order (used_fields does not change in this loop).
RECURSIVE RemainingFrom(_, _, _)
RemainingFrom(list, used, i) ==
    IF i > Len(list) THEN <<>>
    ELSE (IF list[i] \notin used THEN <<list[i]>> ELSE <<>>)
         \o RemainingFrom(list, used, i + 1)

\* The section a list of claimed names makes.
Section(section_name, names) ==
    [name |-> section_name,
     title |-> TranslateSectionName(section_name),
     fields |-> [k \in 1..Len(names) |-> FieldConfig(names[k])]]

\* One turn of the loop over field_groups: group g on the state
\* [sections, used_fields] of the schema being built.
SchemaStep(st, list, g) ==
    IF field_groups[g].name = "other" THEN st
    ELSE LET names == ClaimedFrom(list, field_groups[g].keywords, st.used_fields, 1)
         IN  [sections |->
                 IF names # <<>>
                 THEN Append(st.sections, Section(field_groups[g].name, names))
                 ELSE st.sections,
              used_fields |-> st.used_fields \cup Range(names)]

\* The end of _generate_schema: the remaining fields go to "other".
SchemaOther(st, list) ==
    LET names == RemainingFrom(list, st.used_fields, 1)
    IN  [sections |->
            IF names # <<>> THEN Append(st.sections, Section("other", names))
            ELSE st.sections,
         used_fields |-> st.used_fields]

RECURSIVE SchemaLoop(_, _, _)
SchemaLoop(st, list, g) ==
    IF g > Len(field_groups) THEN st
    ELSE SchemaLoop(SchemaStep(st, list, g), list, g + 1)

\* _generate_schema.
GenerateSchema(list) ==
    [sections |->
        SchemaOther(SchemaLoop([sections |-> <<>>, used_fields |-> {}], list, 1),
                    list).sections]

\* ------------------------------------------ one paragraph, match by match

VARIABLES
    pc,            \* where the running operation is
    user_data,     \* the value mapping of the request
    runs,          \* the run texts of the paragraph being processed
    placeholders,  \* its matches, in processing order
    processed,     \* how many of them have been replaced
    original,      \* the run texts before the call
    writes,        \* how many times a run's text has been assigned
    last,          \* the latest replacement: the runs before it and its arguments
    placeholder_list,  \* the argument of _generate_schema
    schema,        \* the sections and used_fields of the schema being built
    group,         \* the index in field_groups of the group to handle next
    template,      \* the stored template file: readable or not, and its document
    op,            \* the operation called on the template
    doc,           \* the document object the operation has loaded
    result,        \* what the operation gave its caller: a value or an exception
    temp_files,    \* the temporary files that exist, by name (index), with content
    doc_writes,    \* run.text assignments made on the loaded document
    files,         \* the file system: for every path, the file there or none
    records,       \* the Template rows of the database, in the order of their ids
    requests,      \* the requests given to the server, each with its state
    stored         \* for every template path, the file as it was when stored

paraVars == <<runs, placeholders, processed, original, writes, last>>

schemaVars == <<placeholder_list, schema, group>>

docVars == <<template, op, doc, result, temp_files, doc_writes>>

apiVars == <<files, records, requests, stored>>

\* The names and values of the value mappings of the model.
NameA == <<"a">>

NameB == <<"b">>

StrValue(s) == [kind |-> "str", s |-> s, n |-> 0]

IntValue(n) == [kind |-> "int", s |-> <<>>, n |-> n]

\* The value mappings of the model: values shorter than a token, the empty
\* string, an integer longer than a token, a value that is itself a token,
\* and mappings that leave a name out.
UserDataSet ==
    { [x \in {} |-> StrValue(<<>>)],
      [x \in {NameA} |-> StrValue(<<>>)],
      [x \in {NameA} |-> IntValue(1234567)],
      [x \in {NameA, NameB} |->
          IF x = NameA THEN StrValue(<<"X">>) ELSE StrValue(<<"Y", "Y">>)],
      [x \in {NameA, NameB} |->
          IF x = NameA THEN StrValue(Token(NameB)) ELSE StrValue(<<"X">>)] }

\* The pieces paragraph texts are built from: the two tokens and a literal
\* character.  The literal is a brace, so that a text also holds braces that
\* belong to no match ("{{{a}}" matches from offset 1).
Pieces == { <<"{">>, Token(NameA), Token(NameB) }

Texts == { Flatten(ps) : ps \in UNION { [1..n -> Pieces] : n \in 0..MaxPieces } }

\* The cut offsets of a split of text into n runs: n - 1 offsets, in order
\* (equal offsets give empty runs).
Cuts(text, n) ==
    { c \in [1..(n - 1) -> 0..Len(text)] : \A i \in 1..(n - 2) : c[i] <= c[i + 1] }

\* The n runs of text cut at cuts.
Split(text, n, cuts) ==
    [i \in 1..n |-> SubSeq(text,
                           (IF i = 1 THEN 0 ELSE cuts[i - 1]) + 1,
                           IF i = n THEN Len(text) ELSE cuts[i])]

\* A document without content, and the state before a value is returned.
EmptyDoc == [paragraphs |-> <<>>, tables |-> <<>>, sections |-> <<>>]

NoResult == [status |-> "none"]

\* The variables of the document operations while another operation is
\* modelled.
DocIdle ==
    /\ template = [readable |-> TRUE, doc |-> EmptyDoc]
    /\ op = "none"
    /\ doc = EmptyDoc
    /\ result = NoResult
    /\ temp_files = <<>>
    /\ doc_writes = 0

\* The variables of the schema classifier while another operation is modelled.
SchemaIdle ==
    /\ placeholder_list = <<>>
    /\ schema = [sections |-> <<>>, used_fields |-> {}]
    /\ group = 0

\* The paths of the files of the server: templates/<uuid>.docx for the
\* stored templates (two stand there at the start, each upload request takes
\* a path of its own) and the names of the temporary directory.
TemplatePath(k) == [dir |-> "templates", n |-> k]

TempName(k) == [dir |-> "tmp", n |-> k]

NoPath == [dir |-> "none", n |-> 0]

TemplatePaths == { TemplatePath(k) : k \in 1..(2 + MaxRequests) }

TempNames == { TempName(k) : k \in 1..MaxRequests }

FileNames == TemplatePaths \cup TempNames

\* The entry of a path without a file, and the files by content: a .docx
\* package holding a document, bytes that are no .docx package, and the
\* empty file a temporary file is created as.  owner is the request that
\* created the file, 0 for a file that stood there at the start.
NoFile == [exists |-> FALSE, readable |-> FALSE, doc |-> EmptyDoc, owner |-> 0,
           content |-> "none"]

DocumentFile(d, r) ==
    [exists |-> TRUE, readable |-> TRUE, doc |-> d, owner |-> r, content |-> "document"]

BrokenFile(r) ==
    [exists |-> TRUE, readable |-> FALSE, doc |-> EmptyDoc, owner |-> r,
     content |-> "broken"]

EmptyFile(r) ==
    [exists |-> TRUE, readable |-> FALSE, doc |-> EmptyDoc, owner |-> r,
     content |-> "empty"]

\* The variables of the server while another operation is modelled.
ApiIdle ==
    /\ files = <<>>
    /\ records = <<>>
    /\ requests = <<>>
    /\ stored = <<>>

NoOp == [before |-> <<>>, start |-> 0, end |-> 0, replacement |-> <<>>, done |-> FALSE]

ParagraphInit ==
    /\ pc = "paragraph"
    /\ user_data \in UserDataSet
    /\ \E text \in Texts, n \in 0..MaxRuns :
          \E cuts \in Cuts(text, n) :
             /\ n = 0 => text = <<>>
             /\ runs = Split(text, n, cuts)
    /\ original = runs
    /\ placeholders = <<>>
    /\ processed = 0
    /\ writes = 0
    /\ last = NoOp
    /\ SchemaIdle
    /\ DocIdle
    /\ ApiIdle

\* _process_paragraphs, lines 38-45: a paragraph without a match is skipped
\* (re.search finds a match exactly when re.finditer yields one, so the two
\* tests of the code are one condition).
SkipParagraph ==
    /\ pc = "paragraph"
    /\ ~ContainsPlaceholders(ParagraphText(runs))
    /\ pc' = "done"
    /\ UNCHANGED <<user_data, paraVars, schemaVars, docVars, apiVars>>

\* _process_paragraphs, lines 38-48: the matches of the full text are found
\* and put in processing order.
FindPlaceholders ==
    /\ pc = "paragraph"
    /\ ContainsPlaceholders(ParagraphText(runs))
    /\ placeholders' = Reversed(FindIter(ParagraphText(runs)))
    /\ pc' = "replace"
    /\ UNCHANGED <<user_data, runs, processed, original, writes, last, schemaVars, docVars, apiVars>>

\* _process_paragraphs, lines 48-54: one turn of the loop over the matches.
ReplaceMatch ==
    /\ pc = "replace"
    /\ processed < Len(placeholders)
    /\ LET match == placeholders[processed + 1]
           replacement_value == ReplacementValue(user_data, match.name)
       IN  /\ runs' = ReplaceTextInParagraph(runs, match.start, match.end,
                                            replacement_value)
           /\ writes' = writes + Assignments(runs, match.start, match.end)
           /\ last' = [before |-> runs, start |-> match.start, end |-> match.end,
                       replacement |-> replacement_value, done |-> TRUE]
    /\ processed' = processed + 1
    /\ UNCHANGED <<pc, user_data, placeholders, original, schemaVars, docVars, apiVars>>

\* The loop over the matches ends.
FinishParagraph ==
    /\ pc = "replace"
    /\ processed = Len(placeholders)
    /\ pc' = "done"
    /\ UNCHANGED <<user_data, paraVars, schemaVars, docVars, apiVars>>

vars == <<pc, user_data, paraVars, schemaVars, docVars, apiVars>>

ParagraphNext == SkipParagraph \/ FindPlaceholders \/ ReplaceMatch \/ FinishParagraph

SpecParagraph == ParagraphInit /\ [][ParagraphNext]_vars

\* -------------------------------------------- _generate_schema, by group

\* The variables of the paragraph engine while another operation is modelled.
ParagraphIdle ==
    /\ runs = <<>>
    /\ placeholders = <<>>
    /\ processed = 0
    /\ original = <<>>
    /\ writes = 0
    /\ last = NoOp

\* The names placeholder lists are drawn from: the names of the documented
\* example, an upper-case name, a name two groups match, and names of the
\* other groups and of none.
NamePool ==
    { <<"n", "a", "m", "a">>,
      <<"t", "a", "n", "g", "g", "a", "l">>,
      <<"c", "u", "s", "t", "o", "m", "_", "f", "i", "e", "l", "d">>,
      <<"N", "I", "M">>,
      <<"n", "a", "m", "a", "_", "k", "o", "t", "a">>,
      <<"n", "i", "p">>,
      <<"j", "u", "d", "u", "l">>,
      <<"a">> }

\* The duplicate-free lists of at most MaxNames names.
NameLists ==
    { l \in UNION { [1..n -> NamePool] : n \in 0..MaxNames } :
        \A i, j \in 1..Len(l) : i # j => l[i] # l[j] }

SchemaInit ==
    /\ pc = "schema"
    /\ user_data = [x \in {} |-> StrValue(<<>>)]
    /\ ParagraphIdle
    /\ placeholder_list \in NameLists
    /\ schema = [sections |-> <<>>, used_fields |-> {}]
    /\ group = 1
    /\ DocIdle
    /\ ApiIdle

\* _generate_schema, lines 81-107: one named group claims its fields.
SchemaGroup ==
    /\ pc = "schema"
    /\ group <= Len(field_groups)
    /\ field_groups[group].name # "other"
    /\ schema' = SchemaStep(schema, placeholder_list, group)
    /\ group' = group + 1
    /\ UNCHANGED <<pc, user_data, paraVars, placeholder_list, docVars, apiVars>>

\* _generate_schema, lines 82-83: the group "other" is passed over.
SchemaSkipOther ==
    /\ pc = "schema"
    /\ group <= Len(field_groups)
    /\ field_groups[group].name = "other"
    /\ schema' = SchemaStep(schema, placeholder_list, group)
    /\ group' = group + 1
    /\ UNCHANGED <<pc, user_data, paraVars, placeholder_list, docVars, apiVars>>

\* _generate_schema, lines 109-129: the remaining fields and the return.
SchemaFinish ==
    /\ pc = "schema"
    /\ group > Len(field_groups)
    /\ schema' = SchemaOther(schema, placeholder_list)
    /\ pc' = "done"
    /\ UNCHANGED <<user_data, paraVars, placeholder_list, group, docVars, apiVars>>

SchemaNext == SchemaGroup \/ SchemaSkipOther \/ SchemaFinish

SpecSchema == SchemaInit /\ [][SchemaNext]_vars

\* ------------------------------------ the operations on a stored template

\* The paragraphs documents are made of: one without a placeholder, in two
\* runs and with a brace of its own; {{a}} split over two runs; and
\* "{{b}} {{a}}" in two runs.
PlainParagraph == << <<"D", "e">>, <<"a", "r", "{">> >>

SplitParagraph == << <<"{", "{", "a">>, <<"}", "}">> >>

TwoNamesParagraph == << <<"{", "{", "b", "}", "}", " ">>, <<"{", "{", "a", "}", "}">> >>

ParagraphPool == {PlainParagraph, SplitParagraph, TwoNamesParagraph}

\* One table of one row of one cell at depth d; the cell holds the paragraph
\* ps[d] and, below NestDepth, a table of the next depth.
RECURSIVE NestedTables(_, _)
NestedTables(ps, d) ==
    << << << [paragraphs |-> <<ps[d]>>,
              tables |-> IF d < NestDepth THEN NestedTables(ps, d + 1) ELSE <<>>] >> >> >>

\* A document with a body paragraph, a body table nested to NestDepth, and
\* one section whose header and footer hold a paragraph and a table each.
MakeDoc(body, cells, header, header_cell, footer, footer_cell) ==
    [paragraphs |-> <<body>>,
     tables |-> NestedTables(cells, 1),
     sections |->
        << [header |-> [paragraphs |-> <<header>>,
                        tables |-> << << << [paragraphs |-> <<header_cell>>,
                                             tables |-> <<>>] >> >> >>],
            footer |-> [paragraphs |-> <<footer>>,
                        tables |-> << << << [paragraphs |-> <<footer_cell>>,
                                             tables |-> <<>>] >> >> >>]] >>]

\* str(e) of the exception Document(path) raises on an unreadable file, and
\* of a failure later in an operation.
OpenError == "Package not found"

LaterError == "I/O error"

Init ==
    /\ pc = "idle"
    /\ user_data = [x \in {} |-> StrValue(<<>>)]
    /\ ParagraphIdle
    /\ SchemaIdle
    /\ \/ template = [readable |-> FALSE, doc |-> EmptyDoc]
       \/ \E body, header, header_cell, footer, footer_cell \in ParagraphPool :
             \E cells \in [1..NestDepth -> ParagraphPool] :
                template = [readable |-> TRUE,
                            doc |-> MakeDoc(body, cells, header, header_cell,
                                            footer, footer_cell)]
    /\ op = "none"
    /\ doc = EmptyDoc
    /\ result = NoResult
    /\ temp_files = <<>>
    /\ doc_writes = 0
    /\ ApiIdle

\* parse_template: the whole call.
ParseTemplate ==
    /\ pc = "idle"
    /\ op' = "scan"
    /\ IF template.readable
       THEN /\ doc' = template.doc
            /\ result' =
                 [status |-> "return",
                  value |-> [success |-> TRUE,
                             error |-> "",
                             placeholders |-> ExtractPlaceholders(template.doc),
                             schema |-> GenerateSchema(ExtractPlaceholders(template.doc)),
                             field_count |-> Len(ExtractPlaceholders(template.doc))]]
       ELSE /\ doc' = doc
            /\ result' =
                 [status |-> "return",
                  value |-> [success |-> FALSE,
                             error |-> OpenError,
                             placeholders |-> <<>>,
                             schema |-> [sections |-> <<>>],
                             field_count |-> 0]]
    /\ pc' = "returned"
    /\ UNCHANGED <<user_data, paraVars, schemaVars, template, temp_files, doc_writes, apiVars>>

\* get_template_placeholders: the whole call.
GetTemplatePlaceholders ==
    /\ pc = "idle"
    /\ op' = "placeholders"
    /\ IF template.readable
       THEN /\ doc' = template.doc
            /\ result' = [status |-> "return",
                          value |-> SortedList(NamesIn(ScannedParagraphs(template.doc)))]
       ELSE /\ doc' = doc
            /\ result' = [status |-> "return", value |-> <<>>]
    /\ pc' = "returned"
    /\ UNCHANGED <<user_data, paraVars, schemaVars, template, temp_files, doc_writes, apiVars>>

\* preview_replacements: the whole call.
PreviewReplacementsCall ==
    /\ pc = "idle"
    /\ op' = "preview"
    /\ user_data' \in UserDataSet
    /\ IF template.readable
       THEN /\ doc' = template.doc
            /\ result' =
                 [status |-> "return",
                  value |-> [success |-> TRUE,
                             error |-> "",
                             replacements |-> PreviewReplacements(template.doc, user_data'),
                             total_replacements |->
                                 Len(PreviewReplacements(template.doc, user_data'))]]
       ELSE /\ doc' = doc
            /\ result' =
                 [status |-> "return",
                  value |-> [success |-> FALSE,
                             error |-> OpenError,
                             replacements |-> <<>>,
                             total_replacements |-> 0]]
    /\ pc' = "returned"
    /\ UNCHANGED <<paraVars, schemaVars, template, temp_files, doc_writes, apiVars>>

\* generate_document, line 17: the template is loaded, or Document raises.
GenLoad ==
    /\ pc = "idle"
    /\ op' = "generate"
    /\ user_data' \in UserDataSet
    /\ IF template.readable
       THEN /\ doc' = template.doc
            /\ pc' = "gen_paragraphs"
            /\ result' = result
       ELSE /\ doc' = doc
            /\ pc' = "raised"
            /\ result' = [status |-> "raise", error |-> OpenError]
    /\ UNCHANGED <<paraVars, schemaVars, template, temp_files, doc_writes, apiVars>>

\* generate_document, line 20.
GenParagraphs ==
    /\ pc = "gen_paragraphs"
    /\ doc' = [doc EXCEPT !.paragraphs = ProcessParagraphs(doc.paragraphs, user_data)]
    /\ doc_writes' = doc_writes + ParagraphsWrites(doc.paragraphs, user_data)
    /\ pc' = "gen_tables"
    /\ UNCHANGED <<user_data, paraVars, schemaVars, template, op, result, temp_files, apiVars>>

\* generate_document, line 21.
GenTables ==
    /\ pc = "gen_tables"
    /\ doc' = [doc EXCEPT !.tables = ProcessTables(doc.tables, user_data)]
    /\ doc_writes' = doc_writes + ParagraphsWrites(CellParagraphs(doc.tables), user_data)
    /\ pc' = "gen_headers_footers"
    /\ UNCHANGED <<user_data, paraVars, schemaVars, template, op, result, temp_files, apiVars>>

\* generate_document, line 22.
GenHeadersFooters ==
    /\ pc = "gen_headers_footers"
    /\ doc' = [doc EXCEPT !.sections = ProcessHeadersFooters(doc.sections, user_data)]
    /\ doc_writes' = doc_writes
                      + ParagraphsWrites(HeaderFooterParagraphs(doc.sections), user_data)
    /\ pc' = "gen_tempfile"
    /\ UNCHANGED <<user_data, paraVars, schemaVars, template, op, result, temp_files, apiVars>>

\* generate_document, line 25: NamedTemporaryFile(delete=False) creates an
\* empty file under a name no file has.
GenTempFile ==
    /\ pc = "gen_tempfile"
    /\ temp_files' = Append(temp_files, [content |-> "empty", doc |-> EmptyDoc])
    /\ pc' = "gen_save"
    /\ UNCHANGED <<user_data, paraVars, schemaVars, template, op, doc, result, doc_writes, apiVars>>

\* generate_document, lines 26-29: the document is saved to the temporary
\* file, the file is closed and its name returned.
GenSave ==
    /\ pc = "gen_save"
    /\ temp_files' = [temp_files EXCEPT ![Len(temp_files)] =
                         [content |-> "document", doc |-> doc]]
    /\ result' = [status |-> "return", value |-> Len(temp_files)]
    /\ pc' = "returned"
    /\ UNCHANGED <<user_data, paraVars, schemaVars, template, op, doc, doc_writes, apiVars>>

\* generate_document, lines 20-25 and 31-32: an exception before the
\* temporary file exists (a value whose str() raises, no room for a
\* temporary file) is raised again as "Document generation failed".
GenFails ==
    /\ pc \in {"gen_paragraphs", "gen_tables", "gen_headers_footers", "gen_tempfile"}
    /\ result' = [status |-> "raise", error |-> LaterError]
    /\ pc' = "raised"
    /\ UNCHANGED <<user_data, paraVars, schemaVars, template, op, doc, temp_files,
                   doc_writes, apiVars>>

\* generate_document, lines 26 and 31-32: doc.save raises (the disk is
\* full, say).  The except clause raises again; nothing removes the
\* temporary file, which is left empty or partly written.
GenSaveFails ==
    /\ pc = "gen_save"
    /\ \E content \in {"empty", "partial"} :
          temp_files' = [temp_files EXCEPT ![Len(temp_files)] =
                            [content |-> content, doc |-> EmptyDoc]]
    /\ result' = [status |-> "raise", error |-> LaterError]
    /\ pc' = "raised"
    /\ UNCHANGED <<user_data, paraVars, schemaVars, template, op, doc, doc_writes, apiVars>>

Next ==
    \/ ParseTemplate
    \/ GetTemplatePlaceholders
    \/ PreviewReplacementsCall
    \/ GenLoad
    \/ GenParagraphs
    \/ GenTables
    \/ GenHeadersFooters
    \/ GenTempFile
    \/ GenSave
    \/ GenFails
    \/ GenSaveFails

Spec == Init /\ [][Next]_vars

\* ------------------------------------------------ requests on the server

(***************************************************************************)
(* The server is given MaxRequests requests, whose steps interleave at the *)
(* file system and the database: calls of parse_template and of            *)
(* preview_replacements on a stored template, the generate endpoint and    *)
(* the upload endpoint.  A request is [op, pc, path, user_data, doc, temp, *)
(* wrote, result, response]: doc is the document object the request has    *)
(* loaded, temp the name of its temporary file, wrote the file its         *)
(* doc.save has written to (by path, with the owner the file had), result  *)
(* what the service gave the endpoint, response the HTTP response.         *)
(***************************************************************************)

\* The value mappings of the requests: without a key, and with a value for
\* every name.
ServerData ==
    { [x \in {} |-> StrValue(<<>>)],
      [x \in {NameA, NameB} |->
          IF x = NameA THEN StrValue(<<"X">>) ELSE StrValue(<<"Y", "Y">>)] }

\* The two templates that are stored at the start.
FirstTemplate ==
    MakeDoc(SplitParagraph, [d \in 1..NestDepth |-> TwoNamesParagraph], PlainParagraph,
            SplitParagraph, TwoNamesParagraph, PlainParagraph)

SecondTemplate ==
    MakeDoc(TwoNamesParagraph, [d \in 1..NestDepth |-> PlainParagraph], SplitParagraph,
            PlainParagraph, PlainParagraph, PlainParagraph)

\* What an upload request sends: a .docx package, or bytes that are none.
UploadedFiles(r) == { DocumentFile(SecondTemplate, r), BrokenFile(r) }

NoWrite == [path |-> NoPath, owner |-> 0]

NoResponse == [status |-> 0, detail |-> ""]

NewRequest ==
    [op |-> "none", pc |-> "new", path |-> NoPath,
     user_data |-> [x \in {} |-> StrValue(<<>>)], doc |-> EmptyDoc, temp |-> NoPath,
     wrote |-> NoWrite, result |-> NoResult, response |-> NoResponse]

\* parse_template on the file f: Document(template_path) raises on what is
\* no .docx package, and the except clause returns the failure.
ParseResult(f) ==
    IF f.exists /\ f.readable
    THEN [success |-> TRUE,
          error |-> "",
          placeholders |-> ExtractPlaceholders(f.doc),
          schema |-> GenerateSchema(ExtractPlaceholders(f.doc)),
          field_count |-> Len(ExtractPlaceholders(f.doc))]
    ELSE [success |-> FALSE,
          error |-> OpenError,
          placeholders |-> <<>>,
          schema |-> [sections |-> <<>>],
          field_count |-> 0]

\* preview_replacements on the file f.
PreviewResult(f, ud) ==
    IF f.exists /\ f.readable
    THEN [success |-> TRUE,
          error |-> "",
          replacements |-> PreviewReplacements(f.doc, ud),
          total_replacements |-> Len(PreviewReplacements(f.doc, ud))]
    ELSE [success |-> FALSE,
          error |-> OpenError,
          replacements |-> <<>>,
          total_replacements |-> 0]

\* generate_document, lines 20-22, on the document object d.
ProcessDocument(d, ud) ==
    [paragraphs |-> ProcessParagraphs(d.paragraphs, ud),
     tables |-> ProcessTables(d.tables, ud),
     sections |-> ProcessHeadersFooters(d.sections, ud)]

\* Any name of the temporary directory, taken or not.
FreshNames_Any(fs) == TempNames

\* The names NamedTemporaryFile(delete=False, suffix='.docx') can give: it
\* creates its file with O_CREAT | O_EXCL and tries another name when one is
\* taken, so a name of the temporary directory that no file has.
FreshNames(fs) == { n \in TempNames : ~fs[n].exists }

\* The document saved over the template that was read.
SaveTarget_Template(req) == req.path

\* The path doc.save is given: temp_file.name.
SaveTarget(req) == req.temp

\* doc.save(path): the file at the path is written, a file without one is
\* created (by request r).
Saved(fs, path, d, r) ==
    [fs EXCEPT ![path] = DocumentFile(d, IF fs[path].exists THEN fs[path].owner ELSE r)]

\* upload_template, lines 111-115: the handler  except Exception  catches
\* what the try block raised, an HTTPException too (a subclass of
\* Exception), and raises HTTPException(500, "Upload failed: ...") in its
\* place.
ExceptException(raised) ==
    [status |-> 500, detail |-> "Upload failed", cause |-> raised]

\* A Template row: the columns the model follows.
TemplateRow(path, parse_result) == [file_path |-> path, schema |-> parse_result.schema]

Set(r, req) == [requests EXCEPT ![r] = req]

ServerInit ==
    /\ pc = "server"
    /\ user_data = [x \in {} |-> StrValue(<<>>)]
    /\ ParagraphIdle
    /\ SchemaIdle
    /\ DocIdle
    /\ files = [n \in FileNames |->
                  IF n = TemplatePath(1) THEN DocumentFile(FirstTemplate, 0)
                  ELSE IF n = TemplatePath(2) THEN DocumentFile(SecondTemplate, 0)
                  ELSE NoFile]
    /\ records = << TemplateRow(TemplatePath(1), ParseResult(DocumentFile(FirstTemplate, 0))),
                    TemplateRow(TemplatePath(2), ParseResult(DocumentFile(SecondTemplate, 0))) >>
    /\ requests = [r \in 1..MaxRequests |-> NewRequest]
    /\ stored = [n \in TemplatePaths |->
                   IF n = TemplatePath(1) THEN DocumentFile(FirstTemplate, 0)
                   ELSE IF n = TemplatePath(2) THEN DocumentFile(SecondTemplate, 0)
                   ELSE NoFile]

\* parse_template called on the file of a stored template: the whole call.
CallParseTemplate ==
    \E r \in 1..MaxRequests, template_id \in 1..Len(records) :
       /\ requests[r].pc = "new"
       /\ requests' = Set(r, [requests[r] EXCEPT
                                 !.op = "scan",
                                 !.pc = "done",
                                 !.path = records[template_id].file_path,
                                 !.result =
                                    [status |-> "return",
                                     value |-> ParseResult(
                                                 files[records[template_id].file_path])]])
       /\ UNCHANGED <<pc, user_data, paraVars, schemaVars, docVars, files, records, stored>>

\* preview_replacements called on the file of a stored template: the whole
\* call.
CallPreviewReplacements ==
    \E r \in 1..MaxRequests, template_id \in 1..Len(records), ud \in ServerData :
       /\ requests[r].pc = "new"
       /\ requests' = Set(r, [requests[r] EXCEPT
                                 !.op = "preview",
                                 !.pc = "done",
                                 !.path = records[template_id].file_path,
                                 !.user_data = ud,
                                 !.result =
                                    [status |-> "return",
                                     value |-> PreviewResult(
                                                 files[records[template_id].file_path],
                                                 ud)]])
       /\ UNCHANGED <<pc, user_data, paraVars, schemaVars, docVars, files, records, stored>>

\* The generate endpoint, lines 161-170, and generate_document, line 17: the
\* row is looked up (404 without one) and its file loaded into a document
\* object of the request's own; what Document raises becomes a 500.
EndpointGenerateLoad ==
    \E r \in 1..MaxRequests, template_id \in 1..(Len(records) + 1), ud \in ServerData :
       /\ requests[r].pc = "new"
       /\ requests' =
            Set(r,
                IF template_id > Len(records)
                THEN [requests[r] EXCEPT
                         !.op = "generate",
                         !.pc = "done",
                         !.response = [status |-> 404, detail |-> "Template not found"]]
                ELSE IF files[records[template_id].file_path].readable
                THEN [requests[r] EXCEPT
                         !.op = "generate",
                         !.pc = "gen_process",
                         !.path = records[template_id].file_path,
                         !.user_data = ud,
                         !.doc = files[records[template_id].file_path].doc]
                ELSE [requests[r] EXCEPT
                         !.op = "generate",
                         !.pc = "done",
                         !.path = records[template_id].file_path,
                         !.user_data = ud,
                         !.result = [status |-> "raise", error |-> OpenError],
                         !.response = [status |-> 500,
                                       detail |-> "Document generation failed"]])
       /\ UNCHANGED <<pc, user_data, paraVars, schemaVars, docVars, files, records, stored>>

\* generate_document, lines 20-22: the request's document object is
\* rewritten.
EndpointGenerateProcess ==
    \E r \in 1..MaxRequests :
       /\ requests[r].pc = "gen_process"
       /\ requests' = Set(r, [requests[r] EXCEPT
                                 !.pc = "gen_tempfile",
                                 !.doc = ProcessDocument(requests[r].doc,
                                                         requests[r].user_data)])
       /\ UNCHANGED <<pc, user_data, paraVars, schemaVars, docVars, files, records, stored>>

\* generate_document, line 25: the temporary file is created, empty.
EndpointGenerateTempFile ==
    \E r \in 1..MaxRequests :
       /\ requests[r].pc = "gen_tempfile"
       /\ \E name \in FreshNames(files) :
             /\ files' = [files EXCEPT ![name] = EmptyFile(r)]
             /\ requests' = Set(r, [requests[r] EXCEPT !.pc = "gen_save", !.temp = name])
       /\ UNCHANGED <<pc, user_data, paraVars, schemaVars, docVars, records, stored>>

\* generate_document, lines 26-29: the document is saved, the temporary
\* file closed and its name returned.
EndpointGenerateSave ==
    \E r \in 1..MaxRequests :
       /\ requests[r].pc = "gen_save"
       /\ files' = Saved(files, SaveTarget(requests[r]), requests[r].doc, r)
       /\ requests' =
            Set(r, [requests[r] EXCEPT
                       !.pc = "returned",
                       !.wrote =
                          [path |-> SaveTarget(requests[r]),
                           owner |-> IF files[SaveTarget(requests[r])].exists
                                     THEN files[SaveTarget(requests[r])].owner
                                     ELSE r],
                       !.result = [status |-> "return", value |-> requests[r].temp]])
       /\ UNCHANGED <<pc, user_data, paraVars, schemaVars, docVars, records, stored>>

\* The generate endpoint, lines 173-180: the file at output_path is sent and
\* the background task unlinks it if it exists.
EndpointGenerateRespond ==
    \E r \in 1..MaxRequests :
       /\ requests[r].pc = "returned"
       /\ files' = [files EXCEPT ![requests[r].result.value] = NoFile]
       /\ requests' = Set(r, [requests[r] EXCEPT
                                 !.pc = "done",
                                 !.response = [status |-> 200, detail |-> "file"]])
       /\ UNCHANGED <<pc, user_data, paraVars, schemaVars, docVars, records, stored>>

\* upload_template, lines 71-78: the uploaded bytes are written to
\* templates/<uuid4>.docx, a path of the request's own.
UploadStore ==
    \E r \in 1..MaxRequests :
       /\ requests[r].pc = "new"
       /\ \E f \in UploadedFiles(r) :
             /\ files' = [files EXCEPT ![TemplatePath(2 + r)] = f]
             /\ stored' = [stored EXCEPT ![TemplatePath(2 + r)] = f]
       /\ requests' = Set(r, [requests[r] EXCEPT
                                 !.op = "upload",
                                 !.pc = "upload_parse",
                                 !.path = TemplatePath(2 + r)])
       /\ UNCHANGED <<pc, user_data, paraVars, schemaVars, docVars, records>>

\* upload_template, line 81.
UploadParse ==
    \E r \in 1..MaxRequests :
       /\ requests[r].pc = "upload_parse"
       /\ requests' = Set(r, [requests[r] EXCEPT
                                 !.pc = "upload_parsed",
                                 !.result =
                                    [status |-> "return",
                                     value |-> ParseResult(files[requests[r].path])]])
       /\ UNCHANGED <<pc, user_data, paraVars, schemaVars, docVars, files, records, stored>>

\* upload_template, lines 83-86 and 111-115: parsing has failed; the file is
\* removed and HTTPException(400, "Template parsing failed: ...") raised
\* inside the try block, where  except Exception  catches it: the file is
\* gone already, and the request ends with what the handler raises.
UploadReject ==
    \E r \in 1..MaxRequests :
       /\ requests[r].pc = "upload_parsed"
       /\ ~requests[r].result.value.success
       /\ files' = [files EXCEPT ![requests[r].path] = NoFile]
       /\ requests' =
            Set(r, [requests[r] EXCEPT
                       !.pc = "done",
                       !.response =
                          ExceptException([status |-> 400,
                                           detail |-> "Template parsing failed"])])
       /\ UNCHANGED <<pc, user_data, paraVars, schemaVars, docVars, records, stored>>

\* upload_template, lines 88-109: the row is added and the schema returned.
UploadCommit ==
    \E r \in 1..MaxRequests :
       /\ requests[r].pc = "upload_parsed"
       /\ requests[r].result.value.success
       /\ records' = Append(records, TemplateRow(requests[r].path, requests[r].result.value))
       /\ requests' = Set(r, [requests[r] EXCEPT
                                 !.pc = "done",
                                 !.response = [status |-> 200, detail |-> "uploaded"]])
       /\ UNCHANGED <<pc, user_data, paraVars, schemaVars, docVars, files, stored>>

ServerNext ==
    \/ CallParseTemplate
    \/ CallPreviewReplacements
    \/ EndpointGenerateLoad
    \/ EndpointGenerateProcess
    \/ EndpointGenerateTempFile
    \/ EndpointGenerateSave
    \/ EndpointGenerateRespond
    \/ UploadStore
    \/ UploadParse
    \/ UploadReject
    \/ UploadCommit

SpecServer == ServerInit /\ [][ServerNext]_vars

\* ------------------------------------------- claims about one paragraph

\* The value a placeholder name stands for under a mapping: its value as a
\* string, or its own token when the mapping has no such key.
Resolved(ud, name) ==
    IF name \in DOMAIN ud
    THEN (IF ud[name].kind = "str" THEN ud[name].s ELSE Decimal(ud[name].n))
    ELSE <<"{", "{">> \o name \o <<"}", "}">>

\* text from offset i on with every match replaced by its resolved value and
\* every other character kept.
RECURSIVE SubstitutedFrom(_, _, _)
SubstitutedFrom(text, i, ud) ==
    IF i >= Len(text) THEN <<>>
    ELSE LET e == MatchEnd(text, i)
         IN  IF e < 0 THEN <<text[i + 1]>> \o SubstitutedFrom(text, i + 1, ud)
             ELSE Resolved(ud, SubSeq(text, i + 3, e - 2)) \o SubstitutedFrom(text, e, ud)

Substituted(text, ud) == SubstitutedFrom(text, 0, ud)

\* C1: when a paragraph has been processed, the concatenation of its run
\* texts is the original full text with every {{name}} match replaced by its
\* resolved value and every other character kept in place and in order.
C1_TextIsSubstituted ==
    pc = "done" =>
        ParagraphText(runs) = Substituted(ParagraphText(original), user_data)

\* A paragraph of three runs with two matches, one of them split over runs,
\* has been processed and its text has changed.
C1_Witness ==
    /\ pc = "done"
    /\ processed = 2
    /\ Len(original) = 3
    /\ \E k \in 1..2 :
          Len(AffectedRuns(original, placeholders[k].start, placeholders[k].end)) >= 2
    /\ ParagraphText(runs) # ParagraphText(original)

\* The runs of rs that share at least one character with [start, end).
Overlapping(rs, start, end) ==
    { i \in 1..Len(rs) :
        \E k \in start..(end - 1) : RunStart(rs, i) <= k /\ k < RunEnd(rs, i) }

Min(S) == CHOOSE x \in S : \A y \in S : x <= y

Max(S) == CHOOSE x \in S : \A y \in S : x >= y

\* C2: after the replacement of a match that overlaps two or more runs, the
\* first overlapping run holds its prefix before the match followed by the
\* whole replacement, every run between the first and the last overlapping
\* run is empty, and the last overlapping run holds its text after the
\* match end.
C2_SplitMatchRewrite ==
    LET over == Overlapping(last.before, last.start, last.end)
    IN  (last.done /\ Cardinality(over) >= 2) =>
          LET f == Min(over)
              l == Max(over)
          IN  /\ Len(runs) = Len(last.before)
              /\ runs[f] = SubSeq(last.before[f], 1, last.start - RunStart(last.before, f))
                             \o last.replacement
              /\ \A i \in (f + 1)..(l - 1) : runs[i] = <<>>
              /\ runs[l] = SubSeq(last.before[l],
                                  last.end - RunStart(last.before, l) + 1,
                                  Len(last.before[l]))

\* The runs "{{", "a", "}}" with a mapped to "X" have become "X", "", "".
C2_Witness ==
    /\ last.done
    /\ last.before = << <<"{", "{">>, <<"a">>, <<"}", "}">> >>
    /\ last.replacement = <<"X">>
    /\ runs = << <<"X">>, <<>>, <<>> >>

\* C3: matches are taken in descending order of their original start
\* offset, and when a match is about to be processed the current text of the
\* paragraph still holds that match's token at the match's original offsets.
C3_OffsetsStayValid ==
    pc = "replace" =>
        /\ \A j, k \in 1..Len(placeholders) :
              j < k => placeholders[j].start > placeholders[k].start
        /\ processed < Len(placeholders) =>
              LET match == placeholders[processed + 1]
              IN  /\ match.end <= Len(ParagraphText(runs))
                  /\ SubSeq(ParagraphText(runs), match.start + 1, match.end)
                        = <<"{", "{">> \o match.name \o <<"}", "}">>

\* A match is about to be processed after a match to its right was replaced
\* by a value of another length than its token.
C3_Witness ==
    /\ pc = "replace"
    /\ processed >= 1
    /\ processed < Len(placeholders)
    /\ last.done
    /\ Len(last.replacement) # last.end - last.start
    /\ ParagraphText(original) = Token(NameA) \o <<"{">> \o Token(NameB)

\* The offset in the final text of what stood at the start offset of match
\* k of the original text: every match to its left has changed the length
\* by that of its resolved value less that of its token.
RECURSIVE ShiftBefore(_, _, _)
ShiftBefore(ms, k, ud) ==
    IF k = 1 THEN 0
    ELSE ShiftBefore(ms, k - 1, ud)
         + Len(Resolved(ud, ms[k - 1].name)) - (ms[k - 1].end - ms[k - 1].start)

\* C6: a placeholder whose name is no key of the mapping is left in the
\* processed paragraph as its token, character for character, at its place.
C6_MissingKeyKeepsToken ==
    pc = "done" =>
        LET ms == FindIter(ParagraphText(original))
            text == ParagraphText(runs)
        IN  \A k \in 1..Len(ms) :
              ms[k].name \notin DOMAIN user_data =>
                LET at == ms[k].start + ShiftBefore(ms, k, user_data)
                IN  /\ at + (ms[k].end - ms[k].start) <= Len(text)
                    /\ SubSeq(text, at + 1, at + (ms[k].end - ms[k].start))
                          = <<"{", "{">> \o ms[k].name \o <<"}", "}">>

\* A token without a value, split over several runs, stands in a processed
\* paragraph whose other placeholder was resolved.
C6_Witness ==
    /\ pc = "done"
    /\ NameA \in DOMAIN user_data
    /\ NameB \notin DOMAIN user_data
    /\ LET ms == FindIter(ParagraphText(original))
       IN  /\ Len(ms) = 2
           /\ ms[1].name = NameA
           /\ ms[2].name = NameB
           /\ Len(AffectedRuns(original, ms[2].start, ms[2].end)) >= 2
    /\ ParagraphText(runs) # ParagraphText(original)

\* ---------------------------------------------- claims about the schema

\* Whether keyword is a substring of name, letter case ignored.
OccursIgnoringCase(keyword, name) ==
    \E i \in 0..(Len(name) - Len(keyword)) :
       \A k \in 1..Len(keyword) : LowerChar(name[i + k]) = LowerChar(keyword[k])

\* The section a name belongs to: the first group in declaration order, the
\* catch-all aside, with a keyword in the name; else "other".
ExpectedSection(name) ==
    LET hits == {g \in 1..Len(field_groups) :
                   /\ field_groups[g].name # "other"
                   /\ \E k \in 1..Len(field_groups[g].keywords) :
                         OccursIgnoringCase(field_groups[g].keywords[k], name)}
    IN  IF hits = {} THEN "other"
        ELSE field_groups[CHOOSE g \in hits : \A h \in hits : g <= h].name

\* The places (section, field) of the schema that hold name.
PlacesOf(sections, name) ==
    { sf \in UNION { {<<i, f>> : f \in 1..Len(sections[i].fields)} :
                      i \in 1..Len(sections) } :
        sections[sf[1]].fields[sf[2]].name = name }

RECURSIVE FieldTotal(_)
FieldTotal(sections) ==
    IF sections = <<>> THEN 0
    ELSE Len(Head(sections).fields) + FieldTotal(Tail(sections))

SectionOf(sections, name) ==
    sections[(CHOOSE sf \in PlacesOf(sections, name) : TRUE)[1]].name

\* C8: the finished schema holds every name of a duplicate-free list in
\* exactly one section, the first group with a keyword that is a
\* case-insensitive substring of the name, or "other"; the number of fields
\* is the number of names (field_count); nama is in personal, tanggal in
\* header and custom_field in other.
C8_EveryNameInOneSection ==
    (pc = "done" /\ group > Len(field_groups)) =>
        /\ \A i \in 1..Len(placeholder_list) :
              /\ Cardinality(PlacesOf(schema.sections, placeholder_list[i])) = 1
              /\ SectionOf(schema.sections, placeholder_list[i])
                    = ExpectedSection(placeholder_list[i])
        /\ FieldTotal(schema.sections) = Len(placeholder_list)
        /\ \A i \in 1..Len(placeholder_list) :
              LET name == placeholder_list[i]
                  section == SectionOf(schema.sections, name)
              IN  /\ name = <<"n", "a", "m", "a">> => section = "personal"
                  /\ name = <<"t", "a", "n", "g", "g", "a", "l">> => section = "header"
                  /\ name = <<"c", "u", "s", "t", "o", "m", "_", "f", "i", "e", "l", "d">>
                        => section = "other"

\* The schema of nama, tanggal, custom_field is finished: tanggal in header
\* (a date), nama in personal, custom_field in other.
C8_Witness ==
    /\ pc = "done"
    /\ group > Len(field_groups)
    /\ placeholder_list =
          << <<"n", "a", "m", "a">>,
             <<"t", "a", "n", "g", "g", "a", "l">>,
             <<"c", "u", "s", "t", "o", "m", "_", "f", "i", "e", "l", "d">> >>
    /\ [i \in 1..Len(schema.sections) |-> schema.sections[i].name]
          = <<"header", "personal", "other">>
    /\ schema.sections[1].fields[1].type = "date"

\* --------------------------------- claims about the document operations

\* Every paragraph of the given tables at any depth: those of each cell,
\* then those of the tables nested in the cell.
RECURSIVE DeepParagraphs(_)
DeepParagraphs(tables) ==
    Flatten([k \in 1..Len(CellsOf(tables)) |->
               CellsOf(tables)[k].paragraphs \o DeepParagraphs(CellsOf(tables)[k].tables)])

\* Every paragraph of a document: the body's, those of its tables at any
\* depth, and those of every header and footer and of their tables.
AllParagraphs(d) ==
    d.paragraphs \o DeepParagraphs(d.tables)
    \o Flatten([k \in 1..Len(d.sections) |->
                  d.sections[k].header.paragraphs
                  \o DeepParagraphs(d.sections[k].header.tables)
                  \o d.sections[k].footer.paragraphs
                  \o DeepParagraphs(d.sections[k].footer.tables)])

\* Whether a text holds a placeholder token.
HasToken(text) == \E i \in 0..Len(text) : MatchEnd(text, i) >= 0

\* The names of the tokens of a text.
TokenNames(text) ==
    { SubSeq(text, i + 3, MatchEnd(text, i) - 2) :
        i \in { j \in 0..Len(text) : MatchEnd(text, j) >= 0 } }

\* The document a successful generate has saved.
SavedDoc == temp_files[result.value].doc

\* C4: scan returns exactly the names that occur in the text of any paragraph
\* of the document (body, table cells at any depth, headers and footers and
\* their tables), each once, in ascending order.
C4_ScanFindsEveryName ==
    (op = "scan" /\ pc = "returned" /\ template.readable) =>
        LET found == result.value.placeholders
            paragraphs == AllParagraphs(template.doc)
        IN  /\ Range(found)
                 = UNION { TokenNames(ParagraphText(paragraphs[k])) :
                             k \in 1..Len(paragraphs) }
            /\ \A i \in 1..(Len(found) - 1) : StrLess(found[i], found[i + 1])

\* C5: in the document generate produces, every paragraph of the body, of a
\* table cell at any depth and of a header or footer or their tables has the
\* text of the template's paragraph with its placeholders replaced.
C5_GenerateRewritesEveryRegion ==
    (op = "generate" /\ pc = "returned") =>
        LET before == AllParagraphs(template.doc)
            after == AllParagraphs(SavedDoc)
        IN  /\ Len(after) = Len(before)
            /\ \A k \in 1..Len(before) :
                  ParagraphText(after[k])
                    = Substituted(ParagraphText(before[k]), user_data)

\* C7: generate leaves the runs of every paragraph without a placeholder as
\* they were; for a document without any placeholder it assigns no run's
\* text and the produced document is the template's document.
C7_NoPlaceholderNoChange ==
    (op = "generate" /\ pc = "returned") =>
        LET before == AllParagraphs(template.doc)
            after == AllParagraphs(SavedDoc)
        IN  /\ Len(after) = Len(before)
            /\ \A k \in 1..Len(before) :
                  ~HasToken(ParagraphText(before[k])) => after[k] = before[k]
            /\ (\A k \in 1..Len(before) : ~HasToken(ParagraphText(before[k]))) =>
                  /\ doc_writes = 0
                  /\ SavedDoc = template.doc

\* generate has returned for a document without any placeholder and a
\* mapping with values.
C7_Witness ==
    /\ op = "generate"
    /\ pc = "returned"
    /\ DOMAIN user_data = {NameA, NameB}
    /\ Len(AllParagraphs(template.doc)) >= 7
    /\ \A k \in 1..Len(AllParagraphs(template.doc)) :
          AllParagraphs(template.doc)[k] = PlainParagraph
    /\ temp_files[result.value].content = "document"

\* C9: scan and preview never raise, and on a template that cannot be read
\* every placeholder-extraction operation gives a result that says so
\* (success = FALSE with an error message), which none of them gives for a
\* readable document; a readable document without placeholders gives
\* success with an empty list and an empty schema.
C9_ReadFailureIsReported ==
    (op \in {"scan", "preview", "placeholders"} /\ pc \in {"returned", "raised"}) =>
        /\ pc = "returned"
        /\ result.status = "return"
        /\ ~template.readable =>
              IF op = "placeholders"
              THEN result.value # <<>>
              ELSE ~result.value.success /\ result.value.error # ""
        /\ (template.readable /\ op # "placeholders") => result.value.success
        /\ (template.readable /\ op = "scan"
              /\ \A k \in 1..Len(AllParagraphs(template.doc)) :
                    ~HasToken(ParagraphText(AllParagraphs(template.doc)[k]))) =>
              /\ result.value.placeholders = <<>>
              /\ result.value.schema = [sections |-> <<>>]

\* C10: when generate has failed, the caller has one error and no output
\* path, and no temporary file made by the request exists.
C10_FailedGenerateLeavesNothing ==
    (op = "generate" /\ pc = "raised") =>
        /\ result.status = "raise"
        /\ temp_files = <<>>

\* ------------------------------------------- claims about the run structure

\* Whether run i of rs shares a character with a placeholder match of the
\* full text of rs.
OverlapsAMatch(rs, i) ==
    LET ms == FindIter(ParagraphText(rs))
    IN  \E k \in 1..Len(ms) : i \in Overlapping(rs, ms[k].start, ms[k].end)

\* C13: substitution keeps the run structure of a paragraph: at every step
\* the paragraph has as many runs as before the call, and when it has been
\* processed every run that overlapped no placeholder match has its text
\* unchanged at its position.
C13_RunStructureIsKept ==
    /\ Len(runs) = Len(original)
    /\ pc = "done" =>
          \A i \in 1..Len(original) :
             ~OverlapsAMatch(original, i) => runs[i] = original[i]

\* A paragraph of three runs has been processed: a run with text that
\* overlapped no match stands beside a run that a split match has emptied.
C13_Witness ==
    /\ pc = "done"
    /\ Len(original) = 3
    /\ Len(runs) = 3
    /\ \E i \in 1..3 : original[i] # <<>> /\ ~OverlapsAMatch(original, i)
    /\ \E j \in 1..3 : original[j] # <<>> /\ runs[j] = <<>>
    /\ \E k \in 1..Len(placeholders) :
          Len(AffectedRuns(original, placeholders[k].start, placeholders[k].end)) = 2

\* ----------------------------------------- claims about preview and generate

\* The paragraphs generate_document rewrites: the body's, those of the cells
\* of the body's tables, and those of every header and footer and of the
\* cells of their tables.
RewrittenParagraphs(d) ==
    d.paragraphs \o CellParagraphs(d.tables) \o HeaderFooterParagraphs(d.sections)

\* Whether the entries of a preview hold one for the paragraph rs with the
\* text generate gives it under the mapping ud.
PreviewReports(entries, rs, ud) ==
    \E e \in 1..Len(entries) :
       /\ entries[e].original = ParagraphText(rs)
       /\ entries[e].replaced = ParagraphText(ProcessParagraph(rs, ud))

\* C14: preview reports, for every paragraph with a placeholder that generate
\* rewrites (body, table cells, headers and footers), an entry whose rendered
\* text is the text of that paragraph in the document generate produces
\* under the same mapping, names without a value included.
C14_PreviewAgreesWithGenerate ==
    (op = "preview" /\ pc = "returned" /\ template.readable) =>
        \A k \in 1..Len(RewrittenParagraphs(template.doc)) :
           HasToken(ParagraphText(RewrittenParagraphs(template.doc)[k])) =>
              PreviewReports(result.value.replacements,
                             RewrittenParagraphs(template.doc)[k], user_data)

\* ------------------------------------------- claims about the server

\* The requests whose generate has given its caller an output path.
Generated == { r \in DOMAIN requests :
                 requests[r].op = "generate" /\ requests[r].result.status = "return" }

\* The requests that hold a temporary file of theirs: created and not yet
\* unlinked after delivery.
HoldingOutput == { r \in DOMAIN requests : requests[r].pc \in {"gen_save", "returned"} }

\* C11: a generate writes its output only to a file that the request itself
\* has created during the call (never to one that stood there before, the
\* template it read included); no two requests hold the same output file;
\* and the file a successful generate returns holds that request's document.
C11_OutputIsAFreshArtifact ==
    /\ \A r \in DOMAIN requests :
          requests[r].wrote # NoWrite =>
             /\ requests[r].wrote.owner = r
             /\ requests[r].wrote.path \notin TemplatePaths
             /\ requests[r].wrote.path = requests[r].temp
    /\ \A r1, r2 \in HoldingOutput : r1 # r2 => requests[r1].temp # requests[r2].temp
    /\ \A r \in DOMAIN requests :
          requests[r].pc = "returned" =>
             files[requests[r].result.value] = DocumentFile(requests[r].doc, r)

\* Two generate requests on the same template have both returned, before
\* either output file is unlinked.
C11_Witness ==
    /\ requests # <<>>
    /\ requests[1].pc = "returned"
    /\ requests[2].pc = "returned"
    /\ requests[1].path = requests[2].path
    /\ requests[1].wrote # NoWrite
    /\ requests[2].wrote # NoWrite
    /\ files[requests[1].temp].doc # files[requests[2].temp].doc

\* C12: scan, preview and generate leave the file of every stored template
\* as it was stored; whatever ran before or beside it, a scan returns the
\* placeholders, schema and field_count of the template as stored, a
\* preview its entries, and a generate with a mapping produces the document
\* it produces from the template as stored.
C12_TemplateIsNeverModified ==
    /\ \A k \in 1..Len(records) :
          files[records[k].file_path] = stored[records[k].file_path]
    /\ \A r \in DOMAIN requests :
          /\ (requests[r].op = "scan" /\ requests[r].pc = "done") =>
                requests[r].result.value = ParseResult(stored[requests[r].path])
          /\ (requests[r].op = "preview" /\ requests[r].pc = "done") =>
                requests[r].result.value
                   = PreviewResult(stored[requests[r].path], requests[r].user_data)
          /\ r \in Generated =>
                requests[r].doc = ProcessDocument(stored[requests[r].path].doc,
                                                  requests[r].user_data)

\* A generate that has rewritten its document has been answered, and a scan
\* of the same template has returned its placeholders.
C12_Witness ==
    /\ requests # <<>>
    /\ \E r1, r2 \in DOMAIN requests :
          /\ r1 \in Generated
          /\ requests[r1].pc = "done"
          /\ requests[r1].doc # stored[requests[r1].path].doc
          /\ requests[r2].op = "scan"
          /\ requests[r2].pc = "done"
          /\ requests[r2].path = requests[r1].path
          /\ requests[r2].result.value.field_count = 2

\* C15: an upload whose file was stored and whose parsing reported failure
\* ends with the HTTP status 400 and the message "Template parsing failed",
\* its stored file removed and no Template row made for it.
C15_FailedParseEndsWith400 ==
    \A r \in DOMAIN requests :
       (requests[r].op = "upload" /\ requests[r].pc = "done"
          /\ ~requests[r].result.value.success) =>
          /\ requests[r].response.status = 400
          /\ requests[r].response.detail = "Template parsing failed"
          /\ ~files[requests[r].path].exists
          /\ \A k \in 1..Len(records) : records[k].file_path # requests[r].path

====
